---------------------------- MODULE Spec2Model ----------------------------
(***************************************************************************)
(* Solovay-Kitaev gate approximation (src/src/solovay_kitaev.py).          *)
(*                                                                         *)
(* The word library is built by create_unitaries, searched by              *)
(* find_closest_u, and the recursion sk_algo is run on an explicit call    *)
(* stack, one frame per activation, one action per statement of lines      *)
(* 116-123.                                                                *)
(*                                                                         *)
(* Matrices are 2x2 matrices over the Gaussian integers, so that products, *)
(* adjoints and trace distances are computed exactly.  The matrices used   *)
(* are the unit quaternions +-1, +-iX, +-iY, +-iZ, a non-commutative finite*)
(* subgroup of SU(2).                                                      *)
(***************************************************************************)
EXTENDS Integers, Sequences, FiniteSets

VARIABLES phase, base, limit, gates, stack, ret, top, called, searches, err

vars == <<phase, base, limit, gates, stack, ret, top, called, searches, err>>

(***************************************************************************)
(* Bounds of the model.                                                    *)
(***************************************************************************)
MaxLimit == 2      \* largest 'limit' passed to create_unitaries
MaxDepth == 2      \* largest recursion depth n passed to sk_algo
MaxNeg == 1        \* most negative recursion depth passed is -MaxNeg
MaxStack == 4      \* interpreter recursion limit, in sk_algo frames

(***************************************************************************)
(* Complex numbers <<re, im>> and 2x2 matrices <<m00, m01, m10, m11>>.     *)
(***************************************************************************)
CAdd(x, y) == <<x[1] + y[1], x[2] + y[2]>>

CSub(x, y) == <<x[1] - y[1], x[2] - y[2]>>

CMul(x, y) == <<x[1] * y[1] - x[2] * y[2], x[1] * y[2] + x[2] * y[1]>>

CConj(x) == <<x[1], 0 - x[2]>>

CNorm2(x) == x[1] * x[1] + x[2] * x[2]

\* ops.Identity()
Identity == << <<1, 0>>, <<0, 0>>, <<0, 0>>, <<1, 0>> >>

\* A name that no value has been bound to yet.
Unset == << <<0, 0>>, <<0, 0>>, <<0, 0>>, <<0, 0>> >>

\* The operator '@' of two 2x2 matrices.  Each operand is evaluated once,
\* as Python evaluates it, by binding it as the element of a one-element set.
MatMul(X, Y) ==
  CHOOSE M \in { << CAdd(CMul(A[1], B[1]), CMul(A[2], B[3])),
                    CAdd(CMul(A[1], B[2]), CMul(A[2], B[4])),
                    CAdd(CMul(A[3], B[1]), CMul(A[4], B[3])),
                    CAdd(CMul(A[3], B[2]), CMul(A[4], B[4])) >> :
                 A \in {X}, B \in {Y} } : TRUE

\* A.adjoint(): the conjugate transpose.
Adjoint(A) == << CConj(A[1]), CConj(A[3]), CConj(A[2]), CConj(A[4]) >>

MatSub(A, B) == << CSub(A[1], B[1]), CSub(A[2], B[2]),
                   CSub(A[3], B[3]), CSub(A[4], B[4]) >>

Neg(A) == MatSub(Unset, A)

iX == << <<0, 0>>, <<0, 1>>, <<0, 1>>, <<0, 0>> >>

iY == << <<0, 0>>, <<1, 0>>, <<-1, 0>>, <<0, 0>> >>

iZ == << <<0, 1>>, <<0, 0>>, <<0, 0>>, <<0, -1>> >>

\* The target unitaries sk_algo is asked to approximate.
Targets == {Identity, Neg(Identity), iX, iY, iZ, Neg(iZ)}


(***************************************************************************)
(* trace_dist.  np.sqrt is the element-wise square root and np.trace adds  *)
(* the two diagonal entries of (U - V).adjoint() @ (U - V), which are the  *)
(* squared column norms d0, d1 of U - V, so the distance is                *)
(* (sqrt(d0) + sqrt(d1)) / 2.  It is kept as the pair <<d0, d1>> and       *)
(* compared exactly.                                                       *)
(***************************************************************************)
TraceDist(U, V) ==
  CHOOSE d \in { << CNorm2(D[1]) + CNorm2(D[3]), CNorm2(D[2]) + CNorm2(D[4]) >> :
                 D \in {MatSub(U, V)} } : TRUE

\* The float 10 that min_dist starts from.
MinDistInit == 10

\* MinDistInit as a distance pair: (sqrt(4 * 10 * 10) + sqrt(0)) / 2 = 10.
DistOfInit == << 4 * MinDistInit * MinDistInit, 0 >>

\* p < q for distance pairs: sqrt(p1) + sqrt(p2) < sqrt(q1) + sqrt(q2).
DistLess(p0, q0) ==
  \E p \in {p0}, q \in {q0} :
  \E P \in {p[1] * p[2]}, Q \in {q[1] * q[2]},
     D \in {(q[1] + q[2]) - (p[1] + p[2])} :
    \E T \in {4 * (P + Q) - D * D} :
      IF P <= Q
      THEN D > 0 \/ (T > 0 /\ T * T > 64 * P * Q)
      ELSE D > 0 /\ (T < 0 \/ T * T < 64 * P * Q)

\* Mutant of ScanGates: 'tr_dist <= min_dist', so that the last of several
\* closest gates wins.
RECURSIVE ScanGatesLastWins(_, _, _, _, _)
ScanGatesLastWins(gate_list, u, i, min_dist, min_u) ==
  IF i > Len(gate_list)
  THEN min_u
  ELSE CHOOSE r \in
         { IF ~DistLess(min_dist, tr_dist)
           THEN ScanGatesLastWins(gate_list, u, i + 1, tr_dist, gate_list[i])
           ELSE ScanGatesLastWins(gate_list, u, i + 1, min_dist, min_u) :
           tr_dist \in {TraceDist(gate_list[i], u)} } : TRUE

(***************************************************************************)
(* find_closest_u: the linear scan of lines 53-60.                         *)
(***************************************************************************)
RECURSIVE ScanGates(_, _, _, _, _)
ScanGates(gate_list, u, i, min_dist, min_u) ==
  IF i > Len(gate_list)
  THEN min_u
  ELSE CHOOSE r \in
         { IF DistLess(tr_dist, min_dist)
           THEN ScanGates(gate_list, u, i + 1, tr_dist, gate_list[i])
           ELSE ScanGates(gate_list, u, i + 1, min_dist, min_u) :
           tr_dist \in {TraceDist(gate_list[i], u)} } : TRUE

FindClosestU(gate_list, u) == ScanGates(gate_list, u, 1, DistOfInit, Identity)

(***************************************************************************)
(* helper.bitprod(width): the bit tuples of length width, in the order     *)
(* 0, 1, 00, 01, 10, 11, ... of the comment in create_unitaries.  It is    *)
(* given the width alone, never the number of base gates.                  *)
(***************************************************************************)
RECURSIVE BitProd(_)
BitProd(width) ==
  IF width <= 0
  THEN << <<>> >>
  ELSE LET rest == BitProd(width - 1)
       IN  [j \in 1..Len(rest) |-> <<0>> \o rest[j]] \o
           [j \in 1..Len(rest) |-> <<1>> \o rest[j]]

\* U = Identity; for bit in bits: U = U @ base[bit]
RECURSIVE WordProduct(_, _, _)
WordProduct(bs, bits, U) ==
  IF bits = <<>>
  THEN U
  ELSE WordProduct(bs, Tail(bits), MatMul(U, bs[Head(bits) + 1]))

\* base[bit] raises IndexError for some bit of the word.
WordRaises(bs, bits) == \E j \in 1..Len(bits) : bits[j] + 1 > Len(bs)

RECURSIVE WordsUpTo(_, _)
\* The words of width first, first + 1, ..., lim - 1, in order.
WordsUpTo(first, lim) ==
  IF first >= lim THEN <<>> ELSE BitProd(first) \o WordsUpTo(first + 1, lim)

\* Mutant of CreateUnitaries: 'range(1, limit)', which leaves out the
\* empty word.
CreateUnitariesNoEmptyWord(bs, lim) ==
  LET words == WordsUpTo(1, lim)
  IN  IF \E j \in 1..Len(words) : WordRaises(bs, words[j])
      THEN [ok |-> FALSE, gate_list |-> <<>>]
      ELSE [ok |-> TRUE,
            gate_list |-> [j \in 1..Len(words) |-> WordProduct(bs, words[j], Identity)]]

(***************************************************************************)
(* create_unitaries(base, limit): the gate list, or the IndexError that    *)
(* base[bit] raises.                                                       *)
(***************************************************************************)
CreateUnitaries(bs, lim) ==
  LET words == WordsUpTo(0, lim)
  IN  IF \E j \in 1..Len(words) : WordRaises(bs, words[j])
      THEN [ok |-> FALSE, gate_list |-> <<>>]
      ELSE [ok |-> TRUE,
            gate_list |-> [j \in 1..Len(words) |-> WordProduct(bs, words[j], Identity)]]

(***************************************************************************)
(* gc_decomp(U).  For U = Identity: tr = 2, theta = 0, phi = 0, V and W    *)
(* are rotations by 0, the eigenvector matrices are the identity, and the  *)
(* result is (Identity, Identity).  For any other U the result comes out   *)
(* of arccos, arcsin and an eigen-decomposition in floating point and is   *)
(* not a Gaussian-integer matrix: it is left open, as any pair of the      *)
(* matrices of GcRange, which do not commute.  gc_decomp has no raise and  *)
(* no loop; it is taken to return for every input.                         *)
(***************************************************************************)
GcRange == {iX, iY}

GcDecomp(U) ==
  IF U = Identity
  THEN { <<Identity, Identity>> }
  ELSE GcRange \X GcRange

(***************************************************************************)
(* The program state.                                                      *)
(*   phase    "start" before create_unitaries, "idle" between calls of     *)
(*            sk_algo, "running" inside one, "raised" after an exception   *)
(*   base, limit   the arguments create_unitaries was called with          *)
(*   gates    the gate list create_unitaries returned                      *)
(*   stack    the activations of sk_algo, outermost first                  *)
(*   ret      the value of the last return statement executed              *)
(*   top      the arguments of the outermost sk_algo call                  *)
(*   called   sk_algo has been called                                      *)
(*   searches the find_closest_u calls made since the outermost call       *)
(*   err      the exception raised, if any                                 *)
(***************************************************************************)
\* The base generator lists create_unitaries is given: of 0, 1, 2 and 3 gates.
Bases == { <<>>, <<iX>>, <<iX, iY>>, <<iY, iX>>, <<iX, iX>>, <<iX, iY, iZ>> }

Limits == 0..MaxLimit

Depths == (0 - MaxNeg)..MaxDepth

\* A fresh activation of sk_algo(U, gates, n), about to execute line 116.
Frame(U, n) ==
  [U |-> U, n |-> n, pc |-> "enter",
   U_next |-> Unset, V |-> Unset, W |-> Unset,
   V_next |-> Unset, W_next |-> Unset,
   calls |-> 0, decomps |-> 0]

Top(stk) == stk[Len(stk)]

\* The stack with its top frame changed to f.
SetTop(stk, f) == [stk EXCEPT ![Len(stk)] = f]

\* The caller's frame once the callee has returned val into the name
\* the call's result is assigned to (lines 119, 121, 122).
Assign(p, val) ==
  CASE p.pc = "wait_U" -> [p EXCEPT !.U_next = val, !.pc = "decomp"]
    [] p.pc = "wait_V" -> [p EXCEPT !.V_next = val, !.pc = "call_W"]
    [] p.pc = "wait_W" -> [p EXCEPT !.W_next = val, !.pc = "combine"]

\* The stack after its top frame has returned val.
Return(stk, val) ==
  LET rest == SubSeq(stk, 1, Len(stk) - 1)
  IN  IF rest = <<>> THEN rest ELSE SetTop(rest, Assign(Top(rest), val))

\* Mutant of IsBaseCase: 'if n <= 0'.
IsBaseCaseAtMost(n) == n <= 0

\* Line 116: the test n == 0.
IsBaseCase(n) == n = 0

\* Mutant of SkCombine: the two adjoints in the wrong order.
SkCombineWrongOrder(f) ==
  MatMul(MatMul(MatMul(MatMul(f.V_next, f.W_next), Adjoint(f.W_next)),
                Adjoint(f.V_next)),
         f.U_next)

\* Line 123.
SkCombine(f) ==
  MatMul(MatMul(MatMul(MatMul(f.V_next, f.W_next), Adjoint(f.V_next)),
                Adjoint(f.W_next)),
         f.U_next)

Init ==
  /\ phase = "start"
  /\ base = <<>>
  /\ limit = 0
  /\ gates = <<>>
  /\ stack = <<>>
  /\ ret = Unset
  /\ top = [U |-> Unset, n |-> 0]
  /\ called = FALSE
  /\ searches = 0
  /\ err = "none"

\* main, line 137: gates = create_unitaries(base, depth).
BuildLibrary ==
  /\ phase = "start"
  /\ \E bs \in Bases, lim \in Limits :
       LET r == CreateUnitaries(bs, lim)
       IN  /\ base' = bs
           /\ limit' = lim
           /\ gates' = r.gate_list
           /\ phase' = IF r.ok THEN "idle" ELSE "raised"
           /\ err' = IF r.ok THEN "none" ELSE "IndexError"
  /\ UNCHANGED <<stack, ret, top, called, searches>>

\* main, line 144: the outermost call sk_algo(U, gates, n).
Call ==
  /\ phase = "idle"
  /\ \E U \in Targets, n \in Depths :
       /\ stack' = <<Frame(U, n)>>
       /\ top' = [U |-> U, n |-> n]
  /\ phase' = "running"
  /\ called' = TRUE
  /\ searches' = 0
  /\ ret' = Unset
  /\ UNCHANGED <<base, limit, gates, err>>

\* Mutant of SkBase: the search consumes the gate list (gate_list.pop(0)).
SkBasePopsGates ==
  /\ phase = "running"
  /\ Top(stack).pc = "enter"
  /\ IsBaseCase(Top(stack).n)
  /\ \E min_u \in {FindClosestU(gates, Top(stack).U)} :
       /\ ret' = min_u
       /\ stack' = Return(stack, min_u)
  /\ searches' = searches + 1
  /\ phase' = IF Len(stack) = 1 THEN "idle" ELSE "running"
  /\ gates' = IF gates = <<>> THEN gates ELSE Tail(gates)
  /\ UNCHANGED <<base, limit, top, called, err>>

\* Lines 116-117: n == 0, return find_closest_u(gates, U).
SkBase ==
  /\ phase = "running"
  /\ Top(stack).pc = "enter"
  /\ IsBaseCase(Top(stack).n)
  /\ \E min_u \in {FindClosestU(gates, Top(stack).U)} :
       /\ ret' = min_u
       /\ stack' = Return(stack, min_u)
  /\ searches' = searches + 1
  /\ phase' = IF Len(stack) = 1 THEN "idle" ELSE "running"
  /\ gates' = gates
  /\ UNCHANGED <<base, limit, top, called, err>>

\* Lines 116, 119: n != 0, call sk_algo(U, gates, n-1).  The call raises
\* RecursionError when the interpreter's recursion limit is reached.
SkRecurse ==
  /\ phase = "running"
  /\ Top(stack).pc = "enter"
  /\ ~IsBaseCase(Top(stack).n)
  /\ LET f == Top(stack)
     IN  IF Len(stack) >= MaxStack
         THEN /\ phase' = "raised"
              /\ err' = "RecursionError"
              /\ stack' = <<>>
         ELSE /\ stack' = Append(SetTop(stack, [f EXCEPT !.pc = "wait_U",
                                                          !.calls = f.calls + 1]),
                                 Frame(f.U, f.n - 1))
              /\ UNCHANGED <<phase, err>>
  /\ UNCHANGED <<base, limit, gates, ret, top, called, searches>>

\* Line 120: V, W = gc_decomp(U @ U_next.adjoint()).
SkDecomp ==
  /\ phase = "running"
  /\ Top(stack).pc = "decomp"
  /\ LET f == Top(stack)
     IN  \E vw \in GcDecomp(MatMul(f.U, Adjoint(f.U_next))) :
           stack' = SetTop(stack, [f EXCEPT !.V = vw[1], !.W = vw[2],
                                            !.pc = "call_V",
                                            !.decomps = f.decomps + 1])
  /\ UNCHANGED <<phase, base, limit, gates, ret, top, called, searches, err>>

\* Line 121: call sk_algo(V, gates, n-1).  The frame made the call of line
\* 119 at the same stack depth, so the recursion limit is not reached here.
SkCallV ==
  /\ phase = "running"
  /\ Top(stack).pc = "call_V"
  /\ LET f == Top(stack)
     IN  stack' = Append(SetTop(stack, [f EXCEPT !.pc = "wait_V",
                                                 !.calls = f.calls + 1]),
                         Frame(f.V, f.n - 1))
  /\ UNCHANGED <<phase, base, limit, gates, ret, top, called, searches, err>>

\* Mutant of SkCallW: W_next = V_next, without the third recursive call.
SkCallWReusesV ==
  /\ phase = "running"
  /\ Top(stack).pc = "call_W"
  /\ LET f == Top(stack)
     IN  stack' = SetTop(stack, [f EXCEPT !.pc = "combine", !.W_next = f.V_next])
  /\ UNCHANGED <<phase, base, limit, gates, ret, top, called, searches, err>>

\* Line 122: call sk_algo(W, gates, n-1).
SkCallW ==
  /\ phase = "running"
  /\ Top(stack).pc = "call_W"
  /\ LET f == Top(stack)
     IN  stack' = Append(SetTop(stack, [f EXCEPT !.pc = "wait_W",
                                                 !.calls = f.calls + 1]),
                         Frame(f.W, f.n - 1))
  /\ UNCHANGED <<phase, base, limit, gates, ret, top, called, searches, err>>

\* Line 123: return V_next @ W_next @ V_next.adjoint() @ W_next.adjoint() @ U_next.
SkReturn ==
  /\ phase = "running"
  /\ Top(stack).pc = "combine"
  /\ \E val \in {SkCombine(Top(stack))} :
       /\ ret' = val
       /\ stack' = Return(stack, val)
  /\ phase' = IF Len(stack) = 1 THEN "idle" ELSE "running"
  /\ gates' = gates
  /\ UNCHANGED <<base, limit, top, called, searches, err>>

\* The statements of sk_algo.
Step == SkBase \/ SkRecurse \/ SkDecomp \/ SkCallV \/ SkCallW \/ SkReturn

Next == BuildLibrary \/ Call \/ SkBase \/ SkRecurse \/ SkDecomp \/ SkCallV
          \/ SkCallW \/ SkReturn

Spec == Init /\ [][Next]_vars

\* The first call of sk_algo only.
FirstCall == ~called /\ Call

NextFirst == BuildLibrary \/ FirstCall \/ SkBase \/ SkRecurse \/ SkDecomp
               \/ SkCallV \/ SkCallW \/ SkReturn

\* One call of sk_algo, run to its end: the interpreter is single-threaded
\* and no statement of sk_algo blocks, so a started call keeps stepping.
FairSpec == Init /\ [][NextFirst]_vars /\ WF_vars(Step)

(***************************************************************************)
(* Properties.                                                             *)
(***************************************************************************)
\* A depth-0 call of sk_algo has returned: ret is find_closest_u(gates, top.U).
SearchDone == phase = "idle" /\ called /\ top.n = 0

\* No entry of gate_list is strictly closer to u than g is.
Closest(gate_list, u, g) ==
  \A j \in 1..Len(gate_list) :
    ~DistLess(TraceDist(gate_list[j], u), TraceDist(g, u))

\* C1: find_closest_u always returns an element of the library, and no
\* element of the library is strictly closer to the target.
C1_ClosestIsLibraryElement ==
  SearchDone =>
    /\ \E i \in 1..Len(gates) : gates[i] = ret
    /\ Closest(gates, top.U, ret)

RECURSIVE Pow(_, _)
Pow(k, w) == IF w <= 0 THEN 1 ELSE k * Pow(k, w - 1)

RECURSIVE GeomSum(_, _)
\* k^0 + k^1 + ... + k^(L-1)
GeomSum(k, L) == IF L <= 0 THEN 0 ELSE GeomSum(k, L - 1) + Pow(k, L - 1)

\* C2: for a base of size k >= 1 and a limit L >= 1, create_unitaries returns
\* k^0 + ... + k^(L-1) entries, the first of them (length 0) the identity.
C2_LibrarySize ==
  (phase # "start" /\ limit >= 1 /\ Len(base) >= 1) =>
    /\ phase # "raised"
    /\ Len(gates) = GeomSum(Len(base), limit)
    /\ gates[1] = Identity

\* C3: create_unitaries with limit < 1 or an empty base raises an error, so
\* no call of sk_algo ever runs against an empty library.
C3_FailsFast ==
  /\ (phase # "start" /\ (limit < 1 \/ Len(base) = 0)) => phase = "raised"
  /\ phase = "running" => gates # <<>>

\* The index of the first entry of gate_list at minimum distance from u.
FirstMin(gate_list, u) ==
  CHOOSE i \in 1..Len(gate_list) :
    /\ Closest(gate_list, u, gate_list[i])
    /\ \A j \in 1..(i - 1) :
         DistLess(TraceDist(gate_list[i], u), TraceDist(gate_list[j], u))

\* C9: on a non-empty library find_closest_u returns the first entry, in
\* list order, among those at minimum trace distance from the target.
C9_FirstMinimumWins ==
  (SearchDone /\ gates # <<>>) => ret = gates[FirstMin(gates, top.U)]

\* A search has returned where two different entries tie for the minimum.
C9_Witness ==
  /\ SearchDone
  /\ \E i, j \in 1..Len(gates) :
       /\ i < j
       /\ gates[i] # gates[j]
       /\ ret = gates[i]
       /\ Closest(gates, top.U, gates[i])
       /\ Closest(gates, top.U, gates[j])

\* The outermost call has a depth n >= 0 and has not been abandoned.
NonNegativeRun == called /\ top.n >= 0 /\ phase \in {"idle", "running"}

\* Frame f holds the identity in every name bound so far.
AllIdentity(f) ==
  /\ f.U = Identity
  /\ f.pc \notin {"enter", "wait_U"} => f.U_next = Identity
  /\ f.pc \in {"call_V", "wait_V", "call_W", "wait_W", "combine"} =>
       f.V = Identity /\ f.W = Identity
  /\ f.pc \in {"call_W", "wait_W", "combine"} => f.V_next = Identity
  /\ f.pc = "combine" => f.W_next = Identity

\* C4: for the identity as target, a library built with limit >= 1 and any
\* depth n >= 0, sk_algo returns the identity, and at every level U_next, V,
\* W, V_next and W_next are the identity.
C4_IdentityTarget ==
  (NonNegativeRun /\ top.U = Identity /\ limit >= 1) =>
    /\ phase = "idle" => ret = Identity
    /\ \A i \in 1..Len(stack) : AllIdentity(stack[i])

\* The identity has been approximated at depth 2 against a library that
\* holds more than the empty word.
C4_Witness ==
  /\ phase = "idle" /\ called
  /\ top.U = Identity /\ top.n >= 2
  /\ Len(gates) >= 3
  /\ ret = Identity

\* The recursive calls and gc_decomp calls a frame has made when it is at pc.
CallsAt(pc) ==
  CASE pc \in {"enter"} -> 0
    [] pc \in {"wait_U", "decomp", "call_V"} -> 1
    [] pc \in {"wait_V", "call_W"} -> 2
    [] pc \in {"wait_W", "combine"} -> 3

DecompsAt(pc) == IF pc \in {"enter", "wait_U", "decomp"} THEN 0 ELSE 1

\* The call tree of a run of depth n >= 0.
C5_CallCounts ==
  NonNegativeRun =>
    /\ Len(stack) <= top.n + 1
    /\ phase = "idle" => searches = Pow(3, top.n)
    /\ \A i \in 1..Len(stack) :
         LET f == stack[i]
         IN  /\ f.n = top.n - (i - 1)
             /\ f.n >= 0
             /\ f.n = 0 => f.pc = "enter"
             /\ f.calls = CallsAt(f.pc)
             /\ f.decomps = DecompsAt(f.pc)

\* C5: a call of sk_algo with n >= 0 terminates; a frame of depth n >= 1
\* makes exactly 3 calls at depth n-1 and one gc_decomp call, a frame of
\* depth 0 makes one find_closest_u call and no recursive call, the run
\* makes 3^n searches and the stack never holds more than n+1 frames.
C5_CallTree ==
  /\ []C5_CallCounts
  /\ (phase = "running" /\ top.n >= 0) ~> (phase = "idle")

\* A call of depth 2 has returned after 9 searches.
C5_Witness == phase = "idle" /\ called /\ top.n = 2 /\ searches = 9

\* Every waiting frame waits for sk_algo(X, gates, n-1), X being U, V, W for
\* lines 119, 121, 122, and V, W are a result of gc_decomp(U @ U_next.adjoint()).
C6_Args ==
  \A i \in 1..Len(stack) :
    LET f == stack[i]
    IN  /\ f.pc \in {"wait_U", "wait_V", "wait_W"} =>
             /\ i < Len(stack)
             /\ stack[i + 1].n = f.n - 1
             /\ stack[i + 1].U = (CASE f.pc = "wait_U" -> f.U
                                    [] f.pc = "wait_V" -> f.V
                                    [] f.pc = "wait_W" -> f.W)
        /\ f.pc \in {"call_V", "wait_V", "call_W", "wait_W", "combine"} =>
             <<f.V, f.W>> \in GcDecomp(MatMul(f.U, Adjoint(f.U_next)))

\* A return step: the value returned by a frame of depth n # 0 is
\* V_next @ W_next @ adjoint(V_next) @ adjoint(W_next) @ U_next, and it is
\* bound to the caller's U_next, V_next or W_next.
C6_Result ==
  (phase = "running" /\ phase' # "raised" /\ Len(stack') = Len(stack) - 1) =>
    LET f == Top(stack)
    IN  /\ f.n = 0 => ret' = FindClosestU(gates, f.U)
        /\ f.n # 0 =>
             ret' = MatMul(f.V_next,
                      MatMul(f.W_next,
                        MatMul(Adjoint(f.V_next),
                          MatMul(Adjoint(f.W_next), f.U_next))))
        /\ Len(stack) > 1 =>
             LET p == stack[Len(stack) - 1]
                 q == stack'[Len(stack')]
             IN  CASE p.pc = "wait_U" -> q.U_next = ret'
                   [] p.pc = "wait_V" -> q.V_next = ret'
                   [] p.pc = "wait_W" -> q.W_next = ret'

\* C6: for n >= 1 sk_algo returns V_n * W_n * adjoint(V_n) * adjoint(W_n) * U_n
\* in that order, U_n, V_n, W_n being the results of sk_algo at depth n-1 for
\* U, V, W and (V, W) the result of gc_decomp(U * adjoint(U_n)).
C6_ProductOrder == []C6_Args /\ [][C6_Result]_vars

\* The outermost frame of a depth-2 call holds a U_next that differs from
\* the closest library entry: the depth-1 call returned the product of a
\* non-trivial commutator.
C6_Witness ==
  /\ phase = "running" /\ top.n = 2 /\ Len(stack) = 1
  /\ stack[1].pc = "decomp"
  /\ stack[1].U_next # FindClosestU(gates, top.U)

\* C7: after create_unitaries has returned, no call of sk_algo,
\* find_closest_u or gc_decomp changes the library: it equals the library
\* as built.
C7_LibraryReadOnly ==
  (phase # "start" /\ err # "IndexError") =>
    gates = CreateUnitaries(base, limit).gate_list

\* A depth-2 call has searched a non-empty library 9 times and returned.
C7_Witness ==
  /\ phase = "idle" /\ called /\ top.n = 2
  /\ searches = 9 /\ Len(gates) >= 3

\* C10: a call with n < 0 never reaches the base case: every frame has a
\* negative n one less than its caller's, no find_closest_u call and no
\* return happens, and the run ends only with the call stack exhausted.
C10_NegativeDepth ==
  (called /\ top.n < 0) =>
    /\ searches = 0
    /\ ret = Unset
    /\ phase \in {"running", "raised"}
    /\ phase = "raised" => err = "RecursionError"
    /\ \A i \in 1..Len(stack) :
         /\ stack[i].n = top.n - (i - 1)
         /\ stack[i].pc = (IF i < Len(stack) THEN "wait_U" ELSE "enter")

\* A call with a negative depth has exhausted the call stack.
C10_Witness ==
  /\ called /\ top.n < 0
  /\ phase = "raised" /\ err = "RecursionError"
  /\ searches = 0

============================================================================
